---- MODULE Spec2Model ----
(***************************************************************************)
(* A model of src/fastapi/applications.py: the FastAPI application object, *)
(* its route registry, its middleware list and composed stack, its         *)
(* exception table and its cached OpenAPI schema.                           *)
(*                                                                          *)
(* Strings are sequences of tokens: the token "/" is the path separator,   *)
(* every other token is a run of characters holding no separator.  So      *)
(* "/docs" is <<"/", "docs">>, "docs" is <<"docs">> and "" is <<>>.         *)
(* Optional[str] is a record: None, or Some(s).                             *)
(*                                                                          *)
(* Starlette (super().__init__, Route, Mount) and the other modules of the *)
(* fastapi package (routing.APIRouter, openapi.utils.get_openapi) are not  *)
(* in src/: APIRouter and get_openapi are modelled from the specification, *)
(* and super().__init__ at lines 179-187 is taken to keep the attributes   *)
(* this file has assigned (it is handed the same lists and mapping).       *)
(* The router and the middleware classes, Starlette's too, are handed no    *)
(* exception table by this file: a condition a handler raises passes        *)
(* through them.                                                            *)
(*                                                                          *)
(* The assert statements are taken as enabled, and the statement of lines  *)
(* 218-220, whose parentheses do not balance, as the assertion its message *)
(* describes: swagger_ui_oauth2_redirect_url starts with "/".               *)
(***************************************************************************)
EXTENDS Naturals, Sequences, FiniteSets, TLC

VARIABLES
    pc,                 \* "new": __init__ not yet run; "ready": constructed; "failed": __init__ raised
    config,             \* the constructor's arguments, kept as self.<name>
    router_routes,      \* self.router.routes, the route registry
    routes,             \* self.routes, the list filled at lines 161-162
    user_middleware,    \* self.user_middleware
    middleware_stack,   \* self.middleware_stack
    exception_handlers, \* self.exception_handlers, a set of <<key, handler>> pairs
    openapi_schema,     \* self.openapi_schema: NoSchema or a schema document
    response,           \* body of the latest answer of the schema endpoint
    added,              \* history: the descriptors made by add_middleware, in call order
    registered,         \* history: the endpoints registered into the router, in call order
    generation,         \* history: how often get_openapi ran, and the state it last ran in
    requests            \* the request each task has in flight, if any

vars == <<pc, config, router_routes, routes, user_middleware, middleware_stack,
          exception_handlers, openapi_schema, response, added, registered,
          generation, requests>>

----------------------------------------------------------------------------
(* Bounds of the model *)

\* post-construction registrations (add_route, add_websocket_route, include_router, mount)
MaxRoutes == 2
\* add_middleware calls
MaxMiddleware == 3
\* add_middleware calls in the specification of the whole application
MaxAppMiddleware == 1
\* length of the middleware list handed to the constructor
MaxCtorMiddleware == 2
\* tasks the server runs at a time, one request each
MaxTasks == 2

----------------------------------------------------------------------------
(* Values *)

None == [some |-> FALSE, val |-> <<>>]
Some(s) == [some |-> TRUE, val |-> s]

\* Python truthiness of an Optional[str]: None and "" are falsy
Truthy(u) == u.some /\ Len(u.val) > 0

\* str.startswith for a one-character prefix
startswith(u, c) == Len(u.val) >= 1 /\ u.val[1] = c

ROOT == <<"/">>
PATH_A == <<"/", "a">>
PATH_B == <<"/", "b">>
PATH_PARAM == <<"/", "{p}">>
PATH_A_A == <<"/", "a", "/", "a">>

\* the defaults of the constructor's signature
DEFAULT_OPENAPI_URL == Some(<<"/", "openapi.json">>)
DEFAULT_DOCS_URL == Some(<<"/", "docs">>)
DEFAULT_REDOC_URL == Some(<<"/", "redoc">>)
DEFAULT_OAUTH2_REDIRECT_URL == Some(<<"/", "docs", "/", "oauth2-redirect">>)

\* the four documentation handlers (the lambdas of lines 194, 203, 212, 223)
H_OPENAPI == <<"openapi", 0>>
H_DOCS == <<"docs", 0>>
H_REDOC == <<"redoc", 0>>
H_OAUTH2 == <<"swagger_ui_oauth2_redirect", 0>>
DocHandlers == {H_OPENAPI, H_DOCS, H_REDOC, H_OAUTH2}

\* self.openapi_schema before the first generation
NoSchema == [generated |-> FALSE, info |-> <<>>, servers |-> <<>>, paths |-> {}]

\* no endpoint: the outcome of a dispatch that found no route
NoHandler == <<"none", 0>>

\* a condition raised while a request is handled, and no condition
HTTPException(status, detail) ==
    [kind |-> "StarletteHTTPException", status |-> status, detail |-> detail]
Exception(kind) == [kind |-> kind, status |-> 0, detail |-> ""]
NoCondition == [kind |-> "none", status |-> 0, detail |-> ""]

\* the tasks of the server
Tasks == 1..MaxTasks

\* root_path is scope["root_path"] and app the callable __call__ invoked; exc is the
\* condition travelling outwards, status and detail the response.  History:
\* transport_root_path is the root path the transport supplied, n_added the number
\* of add_middleware calls completed at dispatch time, um the middleware list of
\* that time; cached tells a schema answer that came from the cache
NoRequest == [phase |-> "idle", method |-> "", path |-> <<>>, root_path |-> <<>>,
              transport_root_path |-> <<>>,
              app |-> <<>>, depth |-> 0, trace |-> <<>>, exc |-> NoCondition,
              status |-> 0, detail |-> "", n_added |-> 0, um |-> <<>>,
              cached |-> FALSE]

----------------------------------------------------------------------------
(* Route entries.  Starlette's Route, WebSocketRoute and Mount as the entries *)
(* of the registry of spec section 3 (RouteEntry).                            *)

Route(path, endpoint, methods, include_in_schema) ==
    [kind |-> "route", path |-> path, endpoint |-> endpoint,
     \* methods=None: a function endpoint answers GET
     methods |-> IF methods = {} THEN {"GET"} ELSE methods,
     include_in_schema |-> include_in_schema, routes |-> <<>>]

WebSocketRoute(path, endpoint) ==
    [kind |-> "websocket", path |-> path, endpoint |-> endpoint,
     methods |-> {}, include_in_schema |-> TRUE, routes |-> <<>>]

\* sub: the routes of the mounted sub-registry; <<>> for an opaque sub-application
Mount(path, app, sub, include_in_schema) ==
    [kind |-> "mount", path |-> path, endpoint |-> app,
     methods |-> {}, include_in_schema |-> include_in_schema, routes |-> sub]

----------------------------------------------------------------------------
(* Route Registry (fastapi.routing.APIRouter): spec section 4.1 *)

\* register(entry): appends entry to the ordered sequence
APIRouter_register(rr, entry) == Append(rr, entry)

\* a path template against a request path; "{p}" stands for one path parameter
MatchPath(template, path) ==
    /\ Len(template) = Len(path)
    /\ \A i \in 1..Len(template) :
          \/ template[i] = path[i]
          \/ (template[i] = "{p}" /\ path[i] # "/")

IsPrefix(prefix, path) ==
    /\ Len(prefix) <= Len(path)
    /\ SubSeq(path, 1, Len(prefix)) = prefix
    /\ (Len(path) = Len(prefix) \/ path[Len(prefix) + 1] = "/")

StripPrefix(prefix, path) ==
    IF Len(path) = Len(prefix) THEN ROOT
    ELSE SubSeq(path, Len(prefix) + 1, Len(path))

RECURSIVE EntryMatches(_, _, _)
EntryMatches(e, method, path) ==
    CASE e.kind = "route" -> MatchPath(e.path, path) /\ method \in e.methods
      [] e.kind = "websocket" -> MatchPath(e.path, path) /\ method = "WEBSOCKET"
      [] OTHER ->
           /\ IsPrefix(e.path, path)
           /\ \/ e.routes = <<>>      \* an opaque sub-application takes the whole subtree
              \/ \E i \in 1..Len(e.routes) :
                     EntryMatches(e.routes[i], method, StripPrefix(e.path, path))

\* the entry answers the path under some verb
PathMatches(e, path) ==
    \/ (e.kind = "route" /\ MatchPath(e.path, path))
    \/ (e.kind = "mount" /\ IsPrefix(e.path, path))

\* the walk over the entries in registration order, from entry i on: the index of
\* the first entry that matches, 0 when none does
RECURSIVE Walk(_, _, _, _)
Walk(rr, i, method, path) ==
    IF i > Len(rr) THEN 0
    ELSE IF EntryMatches(rr[i], method, path) THEN i
    ELSE Walk(rr, i + 1, method, path)

FirstMatch(rr, method, path) == Walk(rr, 1, method, path)

RECURSIVE EntryEndpoint(_, _, _)
EntryEndpoint(e, method, path) ==
    IF e.kind = "mount" /\ e.routes # <<>>
    THEN EntryEndpoint(e.routes[FirstMatch(e.routes, method, StripPrefix(e.path, path))],
                       method, StripPrefix(e.path, path))
    ELSE e.endpoint

\* dispatch(method, path): walks the entries in registration order and returns the
\* first structural match, else "method not allowed" or "not found"
dispatch(rr, method, path) ==
    IF FirstMatch(rr, method, path) # 0
    THEN [outcome |-> "match", index |-> FirstMatch(rr, method, path),
          endpoint |-> EntryEndpoint(rr[FirstMatch(rr, method, path)], method, path)]
    ELSE IF \E i \in 1..Len(rr) : PathMatches(rr[i], path)
    THEN [outcome |-> "method_not_allowed", index |-> 0, endpoint |-> NoHandler]
    ELSE [outcome |-> "not_found", index |-> 0, endpoint |-> NoHandler]

----------------------------------------------------------------------------
(* Schema Generator (fastapi.openapi.utils.get_openapi): spec section 4.4 *)

RECURSIVE Operations(_, _)
Operations(e, prefix) ==
    CASE e.kind = "route" ->
           IF e.include_in_schema
           THEN {[path |-> prefix \o e.path, verb |-> v, endpoint |-> e.endpoint] :
                   v \in e.methods}
           ELSE {}
      [] e.kind = "mount" ->
           IF e.include_in_schema
           THEN UNION {Operations(e.routes[i], prefix \o e.path) : i \in 1..Len(e.routes)}
           ELSE {}
      [] OTHER -> {}

\* mutant: the inclusion flag of an entry is not consulted
RECURSIVE OperationsOfAll(_, _)
OperationsOfAll(e, prefix) ==
    CASE e.kind = "route" ->
           {[path |-> prefix \o e.path, verb |-> v, endpoint |-> e.endpoint] :
              v \in e.methods}
      [] e.kind = "mount" ->
           UNION {OperationsOfAll(e.routes[i], prefix \o e.path) : i \in 1..Len(e.routes)}
      [] OTHER -> {}

get_openapi_unfiltered(title, servers, rs) ==
    [generated |-> TRUE, info |-> title, servers |-> servers,
     paths |-> UNION {OperationsOfAll(rs[i], <<>>) : i \in 1..Len(rs)}]

get_openapi(title, servers, rs) ==
    [generated |-> TRUE, info |-> title, servers |-> servers,
     paths |-> UNION {Operations(rs[i], <<>>) : i \in 1..Len(rs)}]

----------------------------------------------------------------------------
(* Middleware Stack Builder *)

\* Middleware(cls, **options): a descriptor
Middleware(cls, options) == <<cls, options>>

\* middleware.cls(app, **middleware.options): the callable that wraps app.  A composed
\* callable is the sequence of its layers, outermost first; the router, which every
\* chain ends in, is the empty sequence.
Wrap(middleware, app) == <<middleware>> \o app

reversed(s) == [i \in 1..Len(s) |-> s[Len(s) + 1 - i]]

\* the loop of lines 235-236 over the sequence it is handed
RECURSIVE WrapEach(_, _)
WrapEach(ms, app) ==
    IF ms = <<>> THEN app
    ELSE WrapEach(Tail(ms), Wrap(Head(ms), app))

\* mutant: the list is walked in declaration order
build_middleware_stack_forward(um) == WrapEach(um, <<>>)

build_middleware_stack(um) == WrapEach(reversed(um), <<>>)

----------------------------------------------------------------------------
(* Application Facade: the methods of FastAPI as functions of the state they touch *)

\* both branches of the isinstance test store the handler under the key
add_exception_handler(eh, key, handler) ==
    {p \in eh : p[1] # key} \cup {<<key, handler>>}

\* mutant: a built-in handler is registered only under a key that has no entry yet
setup_keep_supplied(eh) ==
    eh \cup {p \in {<<"StarletteHTTPException", "http_exception">>,
                    <<"RequestValidationError", "request_validation_exception">>} :
                \A q \in eh : q[1] # p[1]}

setup(eh) ==
    add_exception_handler(
        add_exception_handler(eh, "StarletteHTTPException", "http_exception"),
        "RequestValidationError", "request_validation_exception")

\* mutant: the entry goes to the front of the registry
add_route_prepend(rr, path, endpoint, methods, include_in_schema) ==
    <<Route(path, endpoint, methods, include_in_schema)>> \o rr

add_route(rr, path, endpoint, methods, include_in_schema) ==
    APIRouter_register(rr, Route(path, endpoint, methods, include_in_schema))

add_websocket_route(rr, path, endpoint) ==
    APIRouter_register(rr, WebSocketRoute(path, endpoint))

\* an opaque sub-application: nothing in it for the schema generator to walk
mount(rr, path, app) ==
    APIRouter_register(rr, Mount(path, app, <<>>, TRUE))

\* sub: the routes of the included router, mounted under prefix
include_router(rr, router, sub, prefix, include_in_schema) ==
    APIRouter_register(rr, Mount(prefix, router, sub, include_in_schema))

\* mutant: no rebuild, the new layer is patched into the live stack around the router
add_middleware_patch(um, stack, cls, options) ==
    [user_middleware |-> <<Middleware(cls, options)>> \o um,
     middleware_stack |-> Append(stack, Middleware(cls, options))]

\* mutant: the descriptor is appended to the list
add_middleware_append(um, stack, cls, options) ==
    LET appended == Append(um, Middleware(cls, options))
    IN  [user_middleware |-> appended,
         middleware_stack |-> build_middleware_stack(appended)]

\* mutant: the stack is not rebuilt
add_middleware_no_rebuild(um, stack, cls, options) ==
    [user_middleware |-> <<Middleware(cls, options)>> \o um,
     middleware_stack |-> stack]

add_middleware(um, stack, cls, options) ==
    LET inserted == <<Middleware(cls, options)>> \o um
    IN  [user_middleware |-> inserted,
         middleware_stack |-> build_middleware_stack(inserted)]

\* mutant: the cache is not consulted
openapi_regenerate(schema, title, servers, rs) ==
    [openapi_schema |-> get_openapi(title, servers, rs), ran_generator |-> TRUE]

\* the new value of self.openapi_schema, which is also the body of the answer;
\* ran_generator is history: get_openapi was invoked
openapi(schema, title, servers, rs) ==
    IF schema.generated THEN [openapi_schema |-> schema, ran_generator |-> FALSE]
    ELSE [openapi_schema |-> get_openapi(title, servers, rs), ran_generator |-> TRUE]

----------------------------------------------------------------------------
(* __init__, lines 134-225.  st is the constructor's progress: ok is FALSE once *)
(* an assertion has failed, rr is self.router.routes.                            *)

assert_and_add(st, url, endpoint) ==
    IF ~st.ok THEN st
    ELSE IF ~Truthy(url) THEN st
    ELSE IF ~startswith(url, "/") THEN [ok |-> FALSE, rr |-> st.rr]
    ELSE [ok |-> TRUE, rr |-> add_route(st.rr, url.val, endpoint, {}, FALSE)]

setup_openapi(st, a) == assert_and_add(st, a.openapi_url, H_OPENAPI)

\* mutant: the route is added before the URL is checked
setup_docs_add_first(st, a) ==
    IF ~st.ok THEN st
    ELSE IF ~Truthy(a.docs_url) THEN st
    ELSE [ok |-> startswith(a.docs_url, "/"),
          rr |-> add_route(st.rr, a.docs_url.val, H_DOCS, {}, FALSE)]

\* mutant: the UI route is added only when there is a schema URL to point it at
setup_docs_requires_openapi(st, a) ==
    IF Truthy(a.openapi_url) THEN assert_and_add(st, a.docs_url, H_DOCS) ELSE st

setup_docs(st, a) == assert_and_add(st, a.docs_url, H_DOCS)

\* mutant: the URL is not checked
setup_redoc_unchecked(st, a) ==
    IF ~st.ok THEN st
    ELSE IF ~Truthy(a.redoc_url) THEN st
    ELSE [ok |-> TRUE, rr |-> add_route(st.rr, a.redoc_url.val, H_REDOC, {}, FALSE)]

setup_redoc(st, a) == assert_and_add(st, a.redoc_url, H_REDOC)

setup_oauth2_redirect(st, a) ==
    assert_and_add(st, a.swagger_ui_oauth2_redirect_url, H_OAUTH2)

Endpoints(rr) == [i \in 1..Len(rr) |-> rr[i].endpoint]

InRange(s) == {s[i] : i \in 1..Len(s)}

FastAPI_init(a) ==
    LET rr0 == a.routes
        um == a.middleware
        st == setup_oauth2_redirect(
                  setup_redoc(
                      setup_docs(
                          setup_openapi([ok |-> TRUE, rr |-> rr0], a), a), a), a)
        IsRegistered(h) == h \in InRange(Endpoints(st.rr))
    IN  [ok |-> st.ok,
         router_routes |-> st.rr,
         routes |-> rr0,
         user_middleware |-> um,
         middleware_stack |-> build_middleware_stack(um),
         exception_handlers |-> setup(a.exception_handlers),
         openapi_schema |-> NoSchema,
         registered |-> Endpoints(rr0)
                          \o SelectSeq(<<H_OPENAPI, H_DOCS, H_REDOC, H_OAUTH2>>,
                                       IsRegistered)]

----------------------------------------------------------------------------
(* Actions *)

\* registrations made after construction carry a positive number
UserCount == Cardinality({i \in 1..Len(registered) : registered[i][2] > 0})

NextId == Len(registered) + 1

Construct ==
    /\ pc = "new"
    /\ LET s == FastAPI_init(config)
       IN  /\ pc' = IF s.ok THEN "ready" ELSE "failed"
           /\ router_routes' = s.router_routes
           /\ routes' = s.routes
           /\ user_middleware' = s.user_middleware
           /\ middleware_stack' = s.middleware_stack
           /\ exception_handlers' = s.exception_handlers
           /\ openapi_schema' = s.openapi_schema
           /\ registered' = s.registered
    /\ UNCHANGED <<config, response, added, generation, requests>>

\* mutant: a registration clears the cached schema
AddRoute_invalidating(path, methods, include_in_schema) ==
    /\ pc = "ready"
    /\ UserCount < MaxRoutes
    /\ router_routes' = add_route(router_routes, path, <<"endpoint", NextId>>,
                                  methods, include_in_schema)
    /\ registered' = Append(registered, <<"endpoint", NextId>>)
    /\ openapi_schema' = NoSchema
    /\ UNCHANGED <<pc, config, routes, user_middleware, middleware_stack,
                   exception_handlers, response, added, generation, requests>>

AddRoute(path, methods, include_in_schema) ==
    /\ pc = "ready"
    /\ UserCount < MaxRoutes
    /\ router_routes' = add_route(router_routes, path, <<"endpoint", NextId>>,
                                  methods, include_in_schema)
    /\ registered' = Append(registered, <<"endpoint", NextId>>)
    /\ UNCHANGED <<pc, config, routes, user_middleware, middleware_stack,
                   exception_handlers, openapi_schema, response, added, generation, requests>>

AddWebSocketRoute(path) ==
    /\ pc = "ready"
    /\ UserCount < MaxRoutes
    /\ router_routes' = add_websocket_route(router_routes, path,
                                            <<"websocket_endpoint", NextId>>)
    /\ registered' = Append(registered, <<"websocket_endpoint", NextId>>)
    /\ UNCHANGED <<pc, config, routes, user_middleware, middleware_stack,
                   exception_handlers, openapi_schema, response, added, generation, requests>>

MountApp(path) ==
    /\ pc = "ready"
    /\ UserCount < MaxRoutes
    /\ router_routes' = mount(router_routes, path, <<"app", NextId>>)
    /\ registered' = Append(registered, <<"app", NextId>>)
    /\ UNCHANGED <<pc, config, routes, user_middleware, middleware_stack,
                   exception_handlers, openapi_schema, response, added, generation, requests>>

\* the included router holds one GET endpoint at subpath
IncludeRouter(prefix, subpath, include_in_schema) ==
    /\ pc = "ready"
    /\ UserCount < MaxRoutes
    /\ router_routes' =
          include_router(router_routes, <<"router", NextId>>,
                         <<Route(subpath, <<"endpoint", NextId>>, {"GET"}, TRUE)>>,
                         prefix, include_in_schema)
    /\ registered' = Append(registered, <<"router", NextId>>)
    /\ UNCHANGED <<pc, config, routes, user_middleware, middleware_stack,
                   exception_handlers, openapi_schema, response, added, generation, requests>>

\* mutant: the layers are put into the callable already built, which the requests in
\* flight are running
AddMiddleware_in_place(cls) ==
    /\ pc = "ready"
    /\ Len(added) < MaxMiddleware
    /\ LET r == add_middleware(user_middleware, middleware_stack, cls, 0)
       IN  /\ user_middleware' = r.user_middleware
           /\ middleware_stack' = r.middleware_stack
           /\ requests' = [t \in DOMAIN requests |->
                             IF requests[t].phase \in {"in", "out", "raise"}
                             THEN [requests[t] EXCEPT !.app = r.middleware_stack]
                             ELSE requests[t]]
    /\ added' = Append(added, Middleware(cls, 0))
    /\ UNCHANGED <<pc, config, router_routes, routes, exception_handlers,
                   openapi_schema, response, registered, generation>>

AddMiddleware(cls) ==
    /\ pc = "ready"
    /\ Len(added) < MaxMiddleware
    /\ LET r == add_middleware(user_middleware, middleware_stack, cls, 0)
       IN  /\ user_middleware' = r.user_middleware
           /\ middleware_stack' = r.middleware_stack
    /\ added' = Append(added, Middleware(cls, 0))
    /\ UNCHANGED <<pc, config, router_routes, routes, exception_handlers,
                   openapi_schema, response, registered, generation, requests>>

AddExceptionHandler(key, handler) ==
    /\ pc = "ready"
    /\ exception_handlers' = add_exception_handler(exception_handlers, key, handler)
    /\ UNCHANGED <<pc, config, router_routes, routes, user_middleware,
                   middleware_stack, openapi_schema, response, added, registered,
                   generation, requests>>

\* the handler code of an endpoint: what it raises, if anything
raised(endpoint) ==
    CASE endpoint[1] = "teapot" -> HTTPException(418, "teapot")
      [] endpoint[1] = "gone" -> HTTPException(410, "gone")
      [] endpoint[1] = "stout" -> HTTPException(418, "short and stout")
      [] endpoint[1] = "boom" -> Exception("RuntimeError")
      [] endpoint[1] = "value" -> Exception("ValueError")
      [] OTHER -> NoCondition

\* mutant: the scope's root path is overwritten only by a non-empty configured one
Call_keep_transport(t, method, path, root_path) ==
    /\ pc = "ready"
    /\ requests[t].phase \in {"idle", "done", "escaped"}
    /\ requests' = [requests EXCEPT ![t] =
                      [phase |-> "in", method |-> method, path |-> path,
                       root_path |-> IF config.root_path # <<>> THEN config.root_path
                                     ELSE root_path,
                       transport_root_path |-> root_path,
                       app |-> middleware_stack,
                       depth |-> 0, trace |-> <<>>, exc |-> NoCondition,
                       status |-> 0, detail |-> "", n_added |-> Len(added),
                       um |-> user_middleware, cached |-> FALSE]]
    /\ UNCHANGED <<pc, config, router_routes, routes, user_middleware,
                   middleware_stack, exception_handlers, openapi_schema, response,
                   added, registered, generation>>

\* __call__: the root path is written into the scope and the stack of that moment
\* is invoked; root_path is the value the transport put into the scope
Call(t, method, path, root_path) ==
    /\ pc = "ready"
    /\ requests[t].phase \in {"idle", "done", "escaped"}
    /\ requests' = [requests EXCEPT ![t] =
                      [phase |-> "in", method |-> method, path |-> path,
                       root_path |-> config.root_path,
                       transport_root_path |-> root_path,
                       app |-> middleware_stack,
                       depth |-> 0, trace |-> <<>>, exc |-> NoCondition,
                       status |-> 0, detail |-> "", n_added |-> Len(added),
                       um |-> user_middleware, cached |-> FALSE]]
    /\ UNCHANGED <<pc, config, router_routes, routes, user_middleware,
                   middleware_stack, exception_handlers, openapi_schema, response,
                   added, registered, generation>>

\* the next layer of the invoked stack takes the request and calls the app it wraps
MiddlewareEnter(t) ==
    /\ requests[t].phase = "in"
    /\ requests[t].depth < Len(requests[t].app)
    /\ requests' = [requests EXCEPT
                      ![t].depth = @ + 1,
                      ![t].trace = Append(@, [ev |-> "enter",
                                              who |-> requests[t].app[requests[t].depth + 1]])]
    /\ UNCHANGED <<pc, config, router_routes, routes, user_middleware,
                   middleware_stack, exception_handlers, openapi_schema, response,
                   added, registered, generation>>

\* the tasks that have a request inside the application
InFlight == {u \in Tasks : requests[u].phase \in {"in", "out", "raise"}}

\* the router at the end of the chain dispatches and the matched handler runs: it
\* answers, or raises a condition, which the router lets through.  The schema
\* endpoint's handler runs openapi(), which has no suspension point
RouterHandle(t) ==
    /\ requests[t].phase = "in"
    /\ requests[t].depth = Len(requests[t].app)
    /\ LET d == dispatch(router_routes, requests[t].method, requests[t].path)
           exc == raised(d.endpoint)
           o == openapi(openapi_schema, config.title, config.servers, routes)
       IN  /\ requests' = [requests EXCEPT
                             ![t].phase = IF exc = NoCondition THEN "out" ELSE "raise",
                             ![t].exc = exc,
                             ![t].status = CASE exc # NoCondition -> 0
                                             [] d.outcome = "match" -> 200
                                             [] d.outcome = "method_not_allowed" -> 405
                                             [] OTHER -> 404,
                             ![t].cached = (d.endpoint = H_OPENAPI /\ ~o.ran_generator),
                             ![t].trace = Append(@, [ev |-> "router", who |-> d.endpoint])]
           /\ IF d.endpoint = H_OPENAPI
              THEN /\ openapi_schema' = o.openapi_schema
                   /\ response' = o.openapi_schema
                   /\ generation' = IF ~o.ran_generator THEN generation
                                    ELSE [count |-> generation.count + 1,
                                          rr |-> router_routes,
                                          n_added |-> Len(added),
                                          in_flight |-> InFlight]
              ELSE UNCHANGED <<openapi_schema, response, generation>>
    /\ UNCHANGED <<pc, config, router_routes, routes, user_middleware,
                   middleware_stack, exception_handlers, added, registered>>

\* the response, or the condition, travels back through the layers, innermost first
MiddlewareExit(t) ==
    /\ requests[t].phase \in {"out", "raise"}
    /\ requests[t].depth > 0
    /\ requests' = [requests EXCEPT
                      ![t].depth = @ - 1,
                      ![t].trace = Append(@, [ev |-> "exit",
                                              who |-> requests[t].app[requests[t].depth]])]
    /\ UNCHANGED <<pc, config, router_routes, routes, user_middleware,
                   middleware_stack, exception_handlers, openapi_schema, response,
                   added, registered, generation>>

\* __call__ is left: it returns, or the condition no layer caught leaves it
Finish(t) ==
    /\ requests[t].phase \in {"out", "raise"}
    /\ requests[t].depth = 0
    /\ requests' = [requests EXCEPT
                      ![t].phase = IF requests[t].phase = "out" THEN "done" ELSE "escaped"]
    /\ UNCHANGED <<pc, config, router_routes, routes, user_middleware,
                   middleware_stack, exception_handlers, openapi_schema, response,
                   added, registered, generation>>

----------------------------------------------------------------------------
(* Inputs *)

MwClasses == {"m1", "m2", "m3"}

\* every sequence over S of length at most n
RECURSIVE SeqsUpTo(_, _)
SeqsUpTo(S, n) ==
    IF n = 0 THEN {<<>>}
    ELSE SeqsUpTo(S, n - 1)
           \cup {Append(q, x) : q \in {r \in SeqsUpTo(S, n - 1) : Len(r) = n - 1}, x \in S}

CtorRouteLists ==
    { <<>>,
      <<Route(ROOT, <<"ctor_root", 0>>, {"GET"}, TRUE)>>,
      <<Route(PATH_PARAM, <<"ctor_p", 0>>, {"POST"}, TRUE),
        Route(PATH_B, <<"ctor_b", 0>>, {"GET"}, FALSE)>> }

\* the add_route calls of the whole application
RouteInputs ==
    { [path |-> ROOT, methods |-> {"GET"}, include_in_schema |-> TRUE],
      [path |-> PATH_A, methods |-> {"GET", "POST"}, include_in_schema |-> FALSE] }

UrlValues(default) == {None, Some(<<>>), default, Some(<<"docs">>)}

DefaultConfig ==
    [openapi_url |-> DEFAULT_OPENAPI_URL, docs_url |-> DEFAULT_DOCS_URL,
     redoc_url |-> DEFAULT_REDOC_URL,
     swagger_ui_oauth2_redirect_url |-> DEFAULT_OAUTH2_REDIRECT_URL,
     routes |-> <<>>, middleware |-> <<>>, exception_handlers |-> {},
     title |-> "FastAPI", servers |-> <<>>, root_path |-> <<>>,
     root_path_in_servers |-> TRUE]

Blank ==
    /\ pc = "new"
    /\ router_routes = <<>>
    /\ routes = <<>>
    /\ user_middleware = <<>>
    /\ middleware_stack = <<>>
    /\ exception_handlers = {}
    /\ openapi_schema = NoSchema
    /\ response = NoSchema
    /\ added = <<>>
    /\ registered = <<>>
    /\ generation = [count |-> 0, rr |-> <<>>, n_added |-> 0, in_flight |-> {}]
    /\ requests = [t \in Tasks |-> NoRequest]

RequestFlow(t) == MiddlewareEnter(t) \/ RouterHandle(t) \/ MiddlewareExit(t) \/ Finish(t)

----------------------------------------------------------------------------
(* The application: every operation of the facade, default documentation URLs *)

Init ==
    /\ Blank
    /\ \E rs \in CtorRouteLists :
          config = [DefaultConfig EXCEPT !.routes = rs]

Next ==
    \/ Construct
    \/ \E r \in RouteInputs : AddRoute(r.path, r.methods, r.include_in_schema)
    \/ AddWebSocketRoute(PATH_A)
    \/ MountApp(PATH_A)
    \/ IncludeRouter(PATH_A, PATH_A, TRUE)
    \/ (Len(added) < MaxAppMiddleware /\ AddMiddleware("m2"))
    \/ AddExceptionHandler("404", "custom")
    \/ \E path \in {ROOT, DEFAULT_OPENAPI_URL.val} : Call(1, "GET", path, <<>>)
    \/ RequestFlow(1)

Spec == Init /\ [][Next]_vars

----------------------------------------------------------------------------
(* The middleware stack: constructor lists and add_middleware over three classes *)

InitMiddleware ==
    /\ Blank
    /\ \E ms \in SeqsUpTo({Middleware(c, 0) : c \in MwClasses}, MaxCtorMiddleware) :
          config = [DefaultConfig EXCEPT !.middleware = ms]

NextMiddleware ==
    \/ Construct
    \/ \E cls \in MwClasses : AddMiddleware(cls)
    \/ Call(1, "GET", ROOT, <<>>)
    \/ RequestFlow(1)

SpecMiddleware == InitMiddleware /\ [][NextMiddleware]_vars

----------------------------------------------------------------------------
(* The registry: registrations of every kind and requests, no middleware *)

RegistryRouteInputs ==
    RouteInputs \cup
    { [path |-> PATH_PARAM, methods |-> {}, include_in_schema |-> TRUE],
      [path |-> PATH_A, methods |-> {"GET"}, include_in_schema |-> TRUE] }

\* the requests sent to the registry
Requests ==
    { <<"GET", ROOT>>, <<"GET", PATH_A>>, <<"POST", PATH_A>>, <<"WEBSOCKET", PATH_A>>,
      <<"GET", PATH_A_A>>, <<"POST", PATH_B>>, <<"GET", DEFAULT_DOCS_URL.val>> }

InitRegistry ==
    /\ Blank
    /\ \E rs \in CtorRouteLists : config = [DefaultConfig EXCEPT !.routes = rs]

NextRegistry ==
    \/ Construct
    \/ \E r \in RegistryRouteInputs : AddRoute(r.path, r.methods, r.include_in_schema)
    \/ \E path \in {PATH_A, PATH_B} : AddWebSocketRoute(path)
    \/ \E path \in {PATH_A, PATH_B} : MountApp(path)
    \/ \E subpath \in {ROOT, PATH_A}, include \in BOOLEAN :
          IncludeRouter(PATH_A, subpath, include)
    \/ \E r \in Requests : Call(1, r[1], r[2], <<>>)
    \/ RouterHandle(1)
    \/ Finish(1)

SpecRegistry == InitRegistry /\ [][NextRegistry]_vars

----------------------------------------------------------------------------
(* Construction: every setting of the four documentation URLs *)

InitConstruct ==
    /\ Blank
    /\ \E o \in UrlValues(DEFAULT_OPENAPI_URL), d \in UrlValues(DEFAULT_DOCS_URL),
          r \in UrlValues(DEFAULT_REDOC_URL), w \in UrlValues(DEFAULT_OAUTH2_REDIRECT_URL),
          rs \in CtorRouteLists :
          config = [DefaultConfig EXCEPT !.openapi_url = o, !.docs_url = d,
                                         !.redoc_url = r,
                                         !.swagger_ui_oauth2_redirect_url = w,
                                         !.routes = rs]

NextConstruct == Construct

SpecConstruct == InitConstruct /\ [][NextConstruct]_vars

----------------------------------------------------------------------------
(* Failing handlers: routes whose handlers raise, with and without middleware *)

\* the routes handed to the constructor: one handler that answers, three that raise
\* the HTTP-level failure, two that raise a condition of another kind
ErrorRoutes ==
    << Route(ROOT, <<"ctor_root", 0>>, {"GET"}, TRUE),
       Route(<<"/", "teapot">>, <<"teapot", 0>>, {"GET"}, TRUE),
       Route(<<"/", "gone">>, <<"gone", 0>>, {"GET"}, TRUE),
       Route(<<"/", "stout">>, <<"stout", 0>>, {"GET"}, TRUE),
       Route(<<"/", "boom">>, <<"boom", 0>>, {"GET"}, TRUE),
       Route(<<"/", "value">>, <<"value", 0>>, {"GET"}, TRUE) >>

InitErrors ==
    /\ Blank
    /\ \E ms \in {<<>>, <<Middleware("m1", 0)>>} :
          config = [DefaultConfig EXCEPT !.routes = ErrorRoutes, !.middleware = ms]

NextErrors ==
    \/ Construct
    \/ (Len(added) < MaxAppMiddleware /\ AddMiddleware("m2"))
    \/ AddExceptionHandler("ValueError", "custom")
    \/ \E i \in 1..Len(ErrorRoutes) : Call(1, "GET", ErrorRoutes[i].path, <<>>)
    \/ RequestFlow(1)

SpecErrors == InitErrors /\ [][NextErrors]_vars

----------------------------------------------------------------------------
(* Mutation after construction: every mutating operation of the facade, on an   *)
(* application built with and without constructor middleware, and schema requests *)

InitMutation ==
    /\ Blank
    /\ \E ms \in {<<>>, <<Middleware("m1", 0)>>} :
          config = [DefaultConfig EXCEPT
                      !.routes = <<Route(ROOT, <<"ctor_root", 0>>, {"GET"}, TRUE)>>,
                      !.middleware = ms]

NextMutation ==
    \/ Construct
    \/ AddRoute(PATH_A, {"GET"}, TRUE)
    \/ AddWebSocketRoute(PATH_A)
    \/ MountApp(PATH_B)
    \/ IncludeRouter(PATH_A, PATH_A, TRUE)
    \/ (Len(added) < MaxAppMiddleware /\ AddMiddleware("m2"))
    \/ AddExceptionHandler("404", "custom")
    \/ Call(1, "GET", DEFAULT_OPENAPI_URL.val, <<>>)
    \/ RequestFlow(1)

SpecMutation == InitMutation /\ [][NextMutation]_vars

----------------------------------------------------------------------------
(* The exception table: every mapping handed to the constructor over four keys *)

\* the keys of the mappings: the two built-in kinds, a status code, another kind
HandlerKeys == {"StarletteHTTPException", "RequestValidationError", "404", "ValueError"}

\* the handlers an application supplies
UserHandlers == {"custom_a", "custom_b"}

\* the dicts over HandlerKeys: a set of <<key, handler>> pairs, one pair a key at most
HandlerTables ==
    {eh \in SUBSET (HandlerKeys \X UserHandlers) :
        \A p, q \in eh : p[1] = q[1] => p = q}

InitHandlers ==
    /\ Blank
    /\ \E eh \in HandlerTables : config = [DefaultConfig EXCEPT !.exception_handlers = eh]

NextHandlers ==
    \/ Construct
    \/ \E key \in {"StarletteHTTPException", "404"} : AddExceptionHandler(key, "custom_b")

SpecHandlers == InitHandlers /\ [][NextHandlers]_vars

----------------------------------------------------------------------------
(* The root path: every setting of root_path, root_path_in_servers and servers, *)
(* and requests whose transport supplies a root path of its own                 *)

PATH_API == <<"/", "api">>
PATH_PROXY == <<"/", "proxy">>

\* a servers list of one entry, by its url
SERVERS == <<PATH_B>>

InitRootPath ==
    /\ Blank
    /\ \E rp \in {<<>>, PATH_API}, flag \in BOOLEAN, servers \in {<<>>, SERVERS} :
          config = [DefaultConfig EXCEPT
                      !.routes = <<Route(ROOT, <<"ctor_root", 0>>, {"GET"}, TRUE)>>,
                      !.root_path = rp, !.root_path_in_servers = flag,
                      !.servers = servers]

NextRootPath ==
    \/ Construct
    \/ (Len(added) < MaxAppMiddleware /\ AddMiddleware("m2"))
    \/ \E path \in {ROOT, DEFAULT_OPENAPI_URL.val}, rp \in {<<>>, PATH_API, PATH_PROXY} :
          Call(1, "GET", path, rp)
    \/ RequestFlow(1)

SpecRootPath == InitRootPath /\ [][NextRootPath]_vars

----------------------------------------------------------------------------
(* Concurrent requests: every task sends schema requests, which suspend at the *)
(* middleware layers and interleave                                            *)

InitConcurrent ==
    /\ Blank
    /\ config = [DefaultConfig EXCEPT
                   !.routes = <<Route(ROOT, <<"ctor_root", 0>>, {"GET"}, TRUE)>>,
                   !.middleware = <<Middleware("m1", 0)>>]

NextConcurrent ==
    \/ Construct
    \/ AddRoute(PATH_A, {"GET"}, TRUE)
    \/ AddExceptionHandler("404", "custom")
    \/ \E t \in Tasks :
          \/ Call(t, "GET", DEFAULT_OPENAPI_URL.val, <<>>)
          \/ RequestFlow(t)

SpecConcurrent == InitConcurrent /\ [][NextConcurrent]_vars

----------------------------------------------------------------------------
(* Properties of the middleware stack, under SpecMiddleware *)

Ev(e, w) == [ev |-> e, who |-> w]

\* the request of the first task, the only one where requests come one at a time
request == requests[1]

\* a request answered in full
Done == pc = "ready" /\ request.phase = "done"

\* C1: three middleware m1, m2, m3 added in that order by add_middleware to an
\* application built without constructor middleware: a request dispatched after the
\* third call enters m3, then m2, then m1, then the router, and leaves m1 first and
\* m3 last.
C1_AddedThreeOrder ==
    (Done /\ config.middleware = <<>> /\ request.n_added = 3) =>
        /\ Len(request.trace) = 7
        /\ request.trace[1] = Ev("enter", added[3])
        /\ request.trace[2] = Ev("enter", added[2])
        /\ request.trace[3] = Ev("enter", added[1])
        /\ request.trace[4].ev = "router"
        /\ request.trace[5] = Ev("exit", added[1])
        /\ request.trace[6] = Ev("exit", added[2])
        /\ request.trace[7] = Ev("exit", added[3])

C1_Witness ==
    /\ Done
    /\ config.middleware = <<>>
    /\ request.n_added = 3
    /\ Cardinality({added[1], added[2], added[3]}) = 3

\* C2 as stated: of a list [d1, ..., dn], n >= 2, handed to build_middleware_stack, the
\* middleware declared last is the outermost wrapper (first in, last out) and d1 is the
\* wrapper directly around the router.
C2_LastDeclaredOutermost ==
    (Done /\ Len(request.um) >= 2) =>
        LET n == Len(request.um)
        IN  /\ Len(request.trace) = 2 * n + 1
            /\ request.trace[1] = Ev("enter", request.um[n])
            /\ request.trace[2 * n + 1] = Ev("exit", request.um[n])
            /\ request.trace[n] = Ev("enter", request.um[1])
            /\ request.trace[n + 1].ev = "router"
            /\ request.trace[n + 2] = Ev("exit", request.um[1])

\* C2 as amended: the middleware declared first (d1) is the outermost wrapper, first on
\* the way in and last on the way out, and the one declared last (dn) is the wrapper
\* directly around the router.
C2_FirstDeclaredOutermost ==
    (Done /\ Len(request.um) >= 2) =>
        LET n == Len(request.um)
        IN  /\ Len(request.trace) = 2 * n + 1
            /\ request.trace[1] = Ev("enter", request.um[1])
            /\ request.trace[2 * n + 1] = Ev("exit", request.um[1])
            /\ request.trace[n] = Ev("enter", request.um[n])
            /\ request.trace[n + 1].ev = "router"
            /\ request.trace[n + 2] = Ev("exit", request.um[n])

C2_Witness ==
    /\ Done
    /\ Len(request.um) >= 2
    /\ request.um[1] # request.um[Len(request.um)]
    /\ request.trace[1] = Ev("enter", request.um[1])

\* the wrapper directly around the router, and the one nothing wraps
Innermost(stack) == stack[Len(stack)]
Outermost(stack) == stack[1]

\* the layers of the stack that wrap layer i
Outside(stack, i) == {stack[k] : k \in 1..(i - 1)}
Inside(stack, i) == {stack[k] : k \in (i + 1)..Len(stack)}

\* C3 as stated: after one or more add_middleware calls the most recently added
\* middleware is the innermost wrapper, directly around the router, and every
\* middleware added earlier wraps outside it.
C3_LastAddedInnermost ==
    (pc = "ready" /\ Len(added) >= 1) =>
        /\ middleware_stack # <<>>
        /\ Innermost(middleware_stack) = added[Len(added)]
        /\ \A k \in 1..(Len(added) - 1) :
              added[k] \in Outside(middleware_stack, Len(middleware_stack))

\* C3 as amended: after one or more add_middleware calls the most recently added
\* middleware is the outermost wrapper of the composed stack, and every middleware
\* added earlier is wrapped inside it.
C3_LastAddedOutermost ==
    (pc = "ready" /\ Len(added) >= 1) =>
        /\ middleware_stack # <<>>
        /\ Outermost(middleware_stack) = added[Len(added)]
        /\ \A k \in 1..(Len(added) - 1) : added[k] \in Inside(middleware_stack, 1)
        /\ Len(middleware_stack) = Len(added) + Len(config.middleware)

C3_Witness ==
    /\ pc = "ready"
    /\ Len(added) >= 2
    /\ added[Len(added)] # added[Len(added) - 1]
    /\ Outermost(middleware_stack) = added[Len(added)]

----------------------------------------------------------------------------
(* Properties of the cached schema, under Spec *)

\* the step in which the router hands a request to the schema endpoint
SchemaAnswered ==
    /\ request.phase = "in"
    /\ request'.phase = "out"
    /\ request'.trace[Len(request'.trace)] = Ev("router", H_OPENAPI)

\* C4: once a schema document has been generated, no operation replaces or clears the
\* cached document, and every later answer of the schema endpoint is that document,
\* whatever was registered in between.
C4_CachedSchemaKept ==
    [][openapi_schema.generated =>
          /\ openapi_schema' = openapi_schema
          /\ (SchemaAnswered => response' = openapi_schema)]_vars

\* a schema request answered from the cache, dispatched after an add_middleware call
\* that came after the document was generated, with the registry grown since
C4_Witness ==
    /\ Done
    /\ request.cached
    /\ response = openapi_schema
    /\ request.n_added > generation.n_added
    /\ Len(router_routes) > Len(generation.rr)
    /\ generation.count = 1

\* the operations the generator derives from a registry
SchemaPaths(rr) == UNION {Operations(rr[i], <<>>) : i \in 1..Len(rr)}

\* C5: every endpoint registered with include_in_schema = true before the first schema
\* request, in the constructor or afterwards, is in the document that request
\* generates, under its effective path with exactly its verbs; with the default
\* configuration and the one endpoint GET / the paths hold exactly that one operation.
C5_RegisteredEndpointsInSchema ==
    openapi_schema.generated =>
        /\ openapi_schema.paths = SchemaPaths(generation.rr)
        /\ \A i \in 1..Len(generation.rr) :
              (/\ config.routes = <<>>
               /\ generation.rr[i] = Route(ROOT, generation.rr[i].endpoint, {"GET"}, TRUE)
               /\ UserCount = 1)
              => openapi_schema.paths =
                    {[path |-> ROOT, verb |-> "GET", endpoint |-> generation.rr[i].endpoint]}

\* the entries of a registry and of the sub-registries mounted in it
Nested(rr) == UNION {InRange(rr[i].routes) : i \in 1..Len(rr)}
AllEntries == InRange(router_routes) \cup Nested(router_routes)
                \cup InRange(routes) \cup Nested(routes)

\* the endpoint was registered with include_in_schema = false, or under such a mount
Excluded(endpoint) ==
    \/ \E e \in AllEntries : e.endpoint = endpoint /\ ~e.include_in_schema
    \/ \E e \in InRange(router_routes) \cup InRange(routes) :
          /\ ~e.include_in_schema
          /\ \E sub \in InRange(e.routes) : sub.endpoint = endpoint

\* C6: no endpoint registered with include_in_schema = false is in a generated schema
\* document or in an answer of the schema endpoint, and none of the four documentation
\* endpoints is.
C6_ExcludedNeverInSchema ==
    \A op \in openapi_schema.paths \cup response.paths :
        /\ ~Excluded(op.endpoint)
        /\ op.endpoint \notin DocHandlers

C6_Witness ==
    /\ openapi_schema.generated
    /\ response = openapi_schema
    /\ openapi_schema.paths # {}
    /\ \E e \in InRange(routes) : ~e.include_in_schema
    /\ DocHandlers \subseteq InRange(Endpoints(router_routes))

----------------------------------------------------------------------------
(* Properties of the registry, under SpecRegistry *)

\* the place of an endpoint in the order of registration
Rank(endpoint) == CHOOSE k \in 1..Len(registered) : registered[k] = endpoint

MatchingEntries(method, path) ==
    {i \in 1..Len(router_routes) : EntryMatches(router_routes[i], method, path)}

\* of the entries that match a request the one registered first is selected, so of
\* two that match the one registered later never is
FirstRegisteredWins ==
    pc = "ready" =>
        \A r \in Requests :
            LET M == MatchingEntries(r[1], r[2])
                d == dispatch(router_routes, r[1], r[2])
            IN  M # {} =>
                  /\ d.outcome = "match"
                  /\ d.index \in M
                  /\ d.endpoint = EntryEndpoint(router_routes[d.index], r[1], r[2])
                  /\ \A k \in M : Rank(router_routes[d.index].endpoint)
                                     <= Rank(router_routes[k].endpoint)

\* the handler a request was matched to is still the one dispatch selects for it,
\* whatever has been registered since
HandlerStands ==
    (/\ pc = "ready"
     /\ request.phase \in {"out", "done"}
     /\ request.trace[Len(request.app) + 1] # Ev("router", NoHandler)) =>
        request.trace[Len(request.app) + 1] =
            Ev("router", dispatch(router_routes, request.method, request.path).endpoint)

AppendOnly ==
    pc = "ready" =>
        /\ Len(router_routes') >= Len(router_routes)
        /\ SubSeq(router_routes', 1, Len(router_routes)) = router_routes

----------------------------------------------------------------------------
(* Properties of construction, under SpecConstruct *)

\* configured with a non-empty value that does not start with "/"
Malformed(url) == Truthy(url) /\ ~startswith(url, "/")

\* the registry holds a route to the handler at the path
HasRoute(endpoint, path) ==
    \E i \in 1..Len(router_routes) :
        router_routes[i].endpoint = endpoint /\ router_routes[i].path = path

HasHandler(endpoint) == endpoint \in InRange(Endpoints(router_routes))

\* C8 as stated: a malformed docs_url makes construction fail, and at the failure no
\* route has been registered: the registry holds no documentation route, whatever the
\* other documentation URLs are.
C8_NoRouteAtFailure ==
    (pc # "new" /\ Malformed(config.docs_url)) =>
        /\ pc = "failed"
        /\ \A h \in DocHandlers : ~HasHandler(h)

\* C8 as amended: a malformed docs_url makes construction fail, and at the failure no
\* route for docs_url, redoc_url or the OAuth2 redirect URL has been registered; the
\* registry holds the routes handed to the constructor and, when openapi_url is
\* non-empty and starts with "/", the schema route, which is registered before
\* docs_url is checked.
C8_NoLaterRouteAtFailure ==
    (pc # "new" /\ Malformed(config.docs_url)) =>
        /\ pc = "failed"
        /\ \A h \in {H_DOCS, H_REDOC, H_OAUTH2} : ~HasHandler(h)
        /\ router_routes =
              IF Truthy(config.openapi_url) /\ startswith(config.openapi_url, "/")
              THEN Append(config.routes,
                          Route(config.openapi_url.val, H_OPENAPI, {"GET"}, FALSE))
              ELSE config.routes

C8_Witness ==
    /\ pc = "failed"
    /\ Malformed(config.docs_url)
    /\ config.openapi_url = DEFAULT_OPENAPI_URL
    /\ config.redoc_url = DEFAULT_REDOC_URL
    /\ HasRoute(H_OPENAPI, DEFAULT_OPENAPI_URL.val)

DocUrls ==
    {config.openapi_url, config.docs_url, config.redoc_url,
     config.swagger_ui_oauth2_redirect_url}

\* C9: construction aborts, and yields no application, when one of the four
\* documentation URLs is non-empty and does not start with "/"; it raises no
\* configuration error when every non-empty documentation URL starts with "/".
C9_MalformedUrlAborts ==
    pc # "new" =>
        /\ (\E u \in DocUrls : Malformed(u)) => pc = "failed"
        /\ (\A u \in DocUrls : ~Malformed(u)) => pc = "ready"

C9_Witness ==
    /\ pc = "failed"
    /\ Malformed(config.redoc_url)
    /\ \A u \in DocUrls \ {config.redoc_url} : Truthy(u) /\ startswith(u, "/")

\* C10: after a successful construction the registry holds the route of a
\* documentation URL, at that URL, exactly when that URL's own value is non-empty,
\* whatever the other three are.
C10_DocRouteIffConfigured ==
    pc = "ready" =>
        /\ HasHandler(H_OPENAPI) <=> Truthy(config.openapi_url)
        /\ HasHandler(H_DOCS) <=> Truthy(config.docs_url)
        /\ HasHandler(H_REDOC) <=> Truthy(config.redoc_url)
        /\ HasHandler(H_OAUTH2) <=> Truthy(config.swagger_ui_oauth2_redirect_url)
        /\ Truthy(config.openapi_url) => HasRoute(H_OPENAPI, config.openapi_url.val)
        /\ Truthy(config.docs_url) => HasRoute(H_DOCS, config.docs_url.val)
        /\ Truthy(config.redoc_url) => HasRoute(H_REDOC, config.redoc_url.val)
        /\ Truthy(config.swagger_ui_oauth2_redirect_url) =>
              HasRoute(H_OAUTH2, config.swagger_ui_oauth2_redirect_url.val)

C10_Witness ==
    /\ pc = "ready"
    /\ ~Truthy(config.openapi_url)
    /\ HasRoute(H_DOCS, DEFAULT_DOCS_URL.val)
    /\ ~HasHandler(H_OPENAPI)

----------------------------------------------------------------------------
(* Properties of failing handlers, under SpecErrors *)

\* __call__ has been left, by return or by a condition
Left(r) == r.phase \in {"done", "escaped"}

Keys(eh) == {p[1] : p \in eh}

\* C11: when the handler of a matched route raises the HTTP-level failure carrying
\* status s and detail d, and the exception table binds that kind to the built-in
\* handler, the request ends with a response of status s and detail d, and the
\* condition does not leave __call__.
C11_HttpFailureRendered ==
    \A t \in Tasks :
        (/\ Left(requests[t])
         /\ requests[t].exc.kind = "StarletteHTTPException"
         /\ <<"StarletteHTTPException", "http_exception">> \in exception_handlers) =>
            /\ requests[t].phase = "done"
            /\ requests[t].status = requests[t].exc.status
            /\ requests[t].detail = requests[t].exc.detail

\* the exception table has no entry for the condition: none for its kind, and the
\* condition carries no status to look up
Unmatched(exc) ==
    /\ exc # NoCondition
    /\ exc.kind \notin Keys(exception_handlers)
    /\ exc.status = 0

\* C12: whatever the middleware list, the empty one included, a condition raised
\* while a request is handled that the exception table has no entry for is turned
\* into a response of status 500 by the outermost layer of the composed stack, an
\* error boundary, and never leaves __call__.
C12_ErrorBoundary ==
    \A t \in Tasks :
        (Left(requests[t]) /\ Unmatched(requests[t].exc)) =>
            /\ requests[t].phase = "done"
            /\ requests[t].status = 500
            /\ requests[t].app # <<>>
            /\ requests[t].app[1][1] = "ServerErrorMiddleware"

----------------------------------------------------------------------------
(* Properties of mutation after construction, under SpecMutation *)

\* C13: in every state reached after construction by add_middleware, add_route,
\* add_websocket_route, include_router, mount and add_exception_handler calls, the
\* composed stack equals the composition of the current middleware list over the
\* router, so the stack a request is dispatched through holds exactly the
\* middleware of the list of that moment.
C13_StackIsBuildOfList ==
    /\ pc = "ready" =>
          /\ middleware_stack = build_middleware_stack(user_middleware)
          /\ InRange(middleware_stack) = InRange(user_middleware)
          /\ Len(middleware_stack) = Len(user_middleware)
    /\ \A t \in Tasks :
          requests[t].phase # "idle" =>
              requests[t].app = build_middleware_stack(requests[t].um)

\* a request dispatched after add_middleware, a registration and add_exception_handler
\* on an application built with constructor middleware
C13_Witness ==
    /\ pc = "ready"
    /\ config.middleware # <<>>
    /\ Len(added) >= 1
    /\ UserCount >= 1
    /\ <<"404", "custom">> \in exception_handlers
    /\ requests[1].phase = "in"
    /\ requests[1].n_added = Len(added)
    /\ requests[1].app = middleware_stack
    /\ Len(middleware_stack) = 2

----------------------------------------------------------------------------
(* Properties of the exception table, under SpecHandlers *)

BuiltinKeys == {"StarletteHTTPException", "RequestValidationError"}

\* C14: whatever mapping the constructor is handed, the table of the constructed
\* application binds the HTTP-level-failure kind and the request-validation-failure
\* kind to the built-in handlers, also when the mapping had entries for those kinds,
\* and holds the entries supplied under every other key unchanged, and nothing else.
C14_BuiltinsOverwrite ==
    [][(pc = "new" /\ pc' = "ready") =>
          /\ <<"StarletteHTTPException", "http_exception">> \in exception_handlers'
          /\ <<"RequestValidationError", "request_validation_exception">>
                \in exception_handlers'
          /\ \A p \in exception_handlers' :
                p[1] \in BuiltinKeys => p[2] \in {"http_exception",
                                                  "request_validation_exception"}
          /\ {p \in exception_handlers' : p[1] \notin BuiltinKeys}
                = {p \in config.exception_handlers : p[1] \notin BuiltinKeys}]_vars

\* constructed from a mapping with entries for both built-in kinds and for two other
\* keys: the built-in handlers are bound, the other two entries kept
C14_Witness ==
    /\ pc = "ready"
    /\ Keys(config.exception_handlers) = HandlerKeys
    /\ Cardinality(exception_handlers) = 4
    /\ <<"StarletteHTTPException", "http_exception">> \in exception_handlers
    /\ <<"RequestValidationError", "request_validation_exception">> \in exception_handlers
    /\ {p \in config.exception_handlers : p[1] \notin BuiltinKeys} \subseteq exception_handlers

----------------------------------------------------------------------------
(* Properties of the root path, under SpecRootPath *)

\* C15: when root_path_in_servers is true and a non-empty root_path is configured,
\* the servers section of the generated schema document holds an entry for the root
\* path; otherwise the servers section equals the configured servers list.
C15_RootPathInServers ==
    openapi_schema.generated =>
        IF config.root_path_in_servers /\ config.root_path # <<>>
        THEN config.root_path \in InRange(openapi_schema.servers)
        ELSE openapi_schema.servers = config.servers

----------------------------------------------------------------------------
(* Properties of concurrent requests, under SpecConcurrent *)

\* the step in which the router hands the request of task t to the schema endpoint
SchemaAnsweredBy(t) ==
    /\ requests[t].phase = "in"
    /\ requests'[t].phase = "out"
    /\ requests'[t].trace[Len(requests'[t].trace)] = Ev("router", H_OPENAPI)

\* the schema requests answered so far
Answered == {t \in Tasks : /\ requests[t].phase \in {"out", "done"}
                           /\ Ev("router", H_OPENAPI) \in InRange(requests[t].trace)}

\* C16: however two or more concurrent requests to the schema endpoint interleave on
\* an application whose cache is empty, the schema generator runs exactly once: the
\* first request to reach the endpoint generates and stores the document in one step,
\* every other one is answered from the cache, and no step other than a schema
\* request's puts a document into the cache.
C16_GeneratedOnce ==
    /\ [](/\ generation.count <= 1
          /\ openapi_schema.generated <=> generation.count = 1
          /\ Answered # {} => openapi_schema.generated)
    /\ [][/\ openapi_schema' # openapi_schema => \E t \in Tasks : SchemaAnsweredBy(t)
          /\ \A t \in Tasks :
                SchemaAnsweredBy(t) =>
                    /\ openapi_schema'.generated
                    /\ response' = openapi_schema'
                    /\ requests'[t].cached = openapi_schema.generated]_vars

\* two schema requests in flight at once when the document was generated, both
\* answered, one by the generator and one from the cache
C16_Witness ==
    /\ generation.count = 1
    /\ generation.in_flight = {1, 2}
    /\ Answered = {1, 2}
    /\ requests[1].cached # requests[2].cached
    /\ requests[1].app # <<>>

----------------------------------------------------------------------------
(* Properties of requests in flight, under SpecMiddleware *)

\* event i of the trace of a request that runs the stack from its outermost layer to
\* the router and back; the router's event is left open
RunsStack(trace, stack) ==
    /\ Len(trace) <= 2 * Len(stack) + 1
    /\ \A i \in 1..Len(trace) :
          CASE i <= Len(stack) -> trace[i] = Ev("enter", stack[i])
            [] i = Len(stack) + 1 -> trace[i].ev = "router"
            [] OTHER -> trace[i] = Ev("exit", stack[2 * Len(stack) + 2 - i])

\* C17: a request that entered the composed stack before an add_middleware call
\* completes is processed, layer by layer, by the stack that was current when it was
\* dispatched, never by a mixture of old and new layers: add_middleware replaces the
\* application's stack and leaves the callable the request runs as it was.
C17_InFlightKeepsStack ==
    /\ [](\A t \in Tasks :
             /\ requests[t].phase # "idle" =>
                   RunsStack(requests[t].trace, build_middleware_stack(requests[t].um))
             /\ requests[t].phase = "done" =>
                   Len(requests[t].trace) = 2 * Len(requests[t].um) + 1)
    /\ [][added' # added =>
             /\ requests' = requests
             /\ middleware_stack' # middleware_stack]_vars

\* a request on its way out of a stack of two layers, both entered and the inner one
\* left, while the application's stack has since been replaced by add_middleware
C17_Witness ==
    /\ requests[1].phase = "out"
    /\ Len(requests[1].app) = 2
    /\ requests[1].depth = 1
    /\ Len(added) > requests[1].n_added
    /\ middleware_stack # requests[1].app
    /\ requests[1].trace[4] = Ev("exit", requests[1].app[2])

----------------------------------------------------------------------------
(* Frame conditions, under SpecMutation *)

\* C18: add_route, add_websocket_route, include_router, mount and
\* add_exception_handler leave the middleware list, the composed stack and the cached
\* schema unchanged; add_middleware leaves the route registry, the exception table and
\* the cached schema unchanged and changes the middleware list only by inserting the
\* new descriptor at position 0.
C18_FrameConditions ==
    [][pc = "ready" =>
          /\ (registered' # registered \/ exception_handlers' # exception_handlers) =>
                /\ user_middleware' = user_middleware
                /\ middleware_stack' = middleware_stack
                /\ openapi_schema' = openapi_schema
          /\ registered' # registered =>
                /\ Len(router_routes') = Len(router_routes) + 1
                /\ router_routes'[Len(router_routes')].kind \in {"route", "websocket", "mount"}
          /\ added' # added =>
                /\ router_routes' = router_routes
                /\ exception_handlers' = exception_handlers
                /\ openapi_schema' = openapi_schema
                /\ Len(added') = Len(added) + 1
                /\ user_middleware' = <<added'[Len(added')]>> \o user_middleware]_vars

\* with the schema cached: a registration and add_exception_handler have been made
\* since, and add_middleware has put its descriptor before the constructor's
C18_Witness ==
    /\ pc = "ready"
    /\ openapi_schema.generated
    /\ Len(router_routes) > Len(generation.rr)
    /\ router_routes[Len(router_routes)].kind = "mount"
    /\ <<"404", "custom">> \in exception_handlers
    /\ config.middleware # <<>>
    /\ Len(added) > generation.n_added
    /\ user_middleware = added \o config.middleware
    /\ middleware_stack = build_middleware_stack(user_middleware)

----------------------------------------------------------------------------
(* Properties of the request entry point, under SpecRootPath *)

\* the step in which __call__ takes the request of task t
Dispatched(t) == requests[t].phase # "in" /\ requests'[t].phase = "in"

\* C19: for every incoming event __call__ sets the event's root path to the configured
\* root_path before it invokes the composed stack, whatever root path the transport
\* supplied and also when the configured one is the empty default, and it invokes the
\* stack of that moment once with that event: the event runs each layer and the
\* router once.
C19_RootPathOverwritten ==
    /\ [](\A t \in Tasks :
             requests[t].phase # "idle" =>
                 /\ requests[t].root_path = config.root_path
                 /\ RunsStack(requests[t].trace, requests[t].app)
                 /\ Left(requests[t]) =>
                       Len(requests[t].trace) = 2 * Len(requests[t].app) + 1)
    /\ [][\A t \in Tasks :
             Dispatched(t) =>
                 /\ requests'[t].root_path = config.root_path
                 /\ requests'[t].app = middleware_stack
                 /\ requests'[t].depth = 0
                 /\ requests'[t].trace = <<>>]_vars

\* a request answered whose transport supplied a root path, on an application with
\* the empty default root_path and a middleware layer
C19_Witness ==
    /\ requests[1].phase = "done"
    /\ requests[1].transport_root_path = PATH_PROXY
    /\ config.root_path = <<>>
    /\ requests[1].root_path = <<>>
    /\ requests[1].app # <<>>

====
